---- MODULE Spec2Model ----
(***************************************************************************)
(* The two reporting tools of verifier-analysis, commits.py (the Commit     *)
(* History Reporter) and patchsets.py (the Patchset Reporter), run against  *)
(* a git repository.                                                        *)
(*                                                                          *)
(* The repository is the tools' input: a commit graph in which a commit is  *)
(* a number (its hash), numbered in commit-date order, with the list of its *)
(* parents, the content of kernel/bpf/verifier.c in its tree (0: the file   *)
(* is absent) and its subject line.  Every git query the tools issue is an  *)
(* operator computed over that graph the way git computes it (revision      *)
(* ranges, --merges/--no-merges, --reverse, and the history simplification  *)
(* git log applies once a path is given).  A query may also fail for a      *)
(* reason of the environment; run_command then ends the process.            *)
(***************************************************************************)
EXTENDS Integers, Sequences, FiniteSets, TLC

\* Every commit graph of at most MaxCommits commits is a repository of the
\* model, and so is the mainline of at most MaxTopics merged topic branches.
MaxCommits == 4
MaxTopics == 2

\* Contents kernel/bpf/verifier.c can have in a tree; 0 is "no such file".
Contents == {0, 1}

\* target_file of both tools.
TargetFile == "kernel/bpf/verifier.c"

\* A reference that names no revision ("not-a-real-ref").
NoRef == 0

\* Subject lines of merge commits, as words.
TagSubject == <<"Merge", "tag", "'v1.2.3'", "into", "...">>
BranchSubject == <<"Merge", "branch", "'fixes'">>
PlainSubject == <<"bpf:", "fix">>

VARIABLES
    parents,    \* repository: parents[c], the parents of commit c, first parent first
    content,    \* repository: content[c], the target file in the tree of c
    subject,    \* repository: subject[c], the subject line of c
    dotGit,     \* whether ".git" exists in the working directory
    tool,       \* which script runs: "commits" or "patchsets"
    start_ref,  \* args.start_ref
    end_ref,    \* args.end_ref
    pc,         \* position of main()
    todo,       \* the hashes the for loop of main() has still to visit
    results,    \* results["commits"] or results["patchsets"]
    count,      \* results["metadata"]["commit_count" / "patchset_count"], -1 before it is set
    stdout,     \* the documents printed on standard output
    status,     \* exit status of the process, -1 while it runs
    nRevParse,  \* git rev-parse queries issued by the verification of the references
    nHistory,   \* git log / git show / git rev-parse queries issued after it
    envFault    \* whether a query failed for a reason outside the repository

vars == <<parents, content, subject, dotGit, tool, start_ref, end_ref, pc, todo,
          results, count, stdout, status, nRevParse, nHistory, envFault>>

repoVars == <<parents, content, subject, dotGit>>
argVars == <<tool, start_ref, end_ref>>

----------------------------------------------------------------------------
(* The commit graph.                                                        *)

NumCommits == Len(parents)
Commits == 1..NumCommits

SeqRange(s) == {s[i] : i \in 1..Len(s)}

IsMerge(c) == Len(parents[c]) > 1

RECURSIVE ReachFrom(_, _, _)
\* The commits of graph g reachable from the commits of `front`, with `acc`.
ReachFrom(g, front, acc) ==
    IF front = {} THEN acc
    ELSE LET c == CHOOSE x \in front : TRUE
             new == SeqRange(g[c]) \ (acc \cup front)
         IN ReachFrom(g, (front \ {c}) \cup new, acc \cup {c})

\* c and its ancestors.
Reach(c) == ReachFrom(parents, {c}, {})

\* The tree of c differs from the tree of p at the target file.
Differs(c, p) == content[c] # content[p]

\* The change commit c makes to the target file, as git show and git diff see
\* it: against the sole parent, or against the empty tree for a root commit.
Touches(c) ==
    IF parents[c] = <<>> THEN content[c] # 0 ELSE Differs(c, parents[c][1])

----------------------------------------------------------------------------
(* git log.  The walk is the one of git's revision machinery for a range   *)
(* with a negative end: commits leave a queue newest first; an              *)
(* uninteresting commit passes the mark to its parents; an interesting one  *)
(* is simplified against the path, queues the parents it keeps and joins    *)
(* the list.  What is shown is the list without the commits that ended up   *)
(* uninteresting, that fail --merges/--no-merges, or (with a path) that     *)
(* are TREESAME.                                                            *)

Newest(S) == CHOOSE c \in S : \A d \in S : d <= c

Reverse(s) == [i \in 1..Len(s) |-> s[Len(s) + 1 - i]]

RECURSIVE MarkUninteresting(_, _, _, _)
\* mark_parents_uninteresting: the mark spreads over the commits of `stack`
\* and, through those already parsed, over their parents.
MarkUninteresting(stack, un, parsed, par) ==
    IF stack = {} THEN un
    ELSE LET x == CHOOSE y \in stack : TRUE
         IN IF x \in un
            THEN MarkUninteresting(stack \ {x}, un, parsed, par)
            ELSE MarkUninteresting(
                     (stack \ {x}) \cup (IF x \in parsed THEN SeqRange(par[x]) ELSE {}),
                     un \cup {x}, parsed, par)

\* try_to_simplify_commit for commit c with parents ps: the parents the walk
\* keeps, whether c is TREESAME, and the parents it looked at.  A parent is
\* relevant unless it is uninteresting and not a bottom of the range.
Simplify(c, ps, un, bottoms) ==
    LET rel(p) == ~(p \in un /\ p \notin bottoms)
        same(p) == ~Differs(c, p)
        hits == {i \in 1..Len(ps) : same(ps[i]) /\ rel(ps[i])}
    IN IF ps = <<>>
       THEN [keep |-> ps, treesame |-> content[c] = 0, visited |-> {}]
       ELSE IF hits # {}
       THEN LET i == CHOOSE k \in hits : \A j \in hits : k <= j
            IN [keep |-> <<ps[i]>>, treesame |-> TRUE,
                visited |-> {ps[j] : j \in 1..i}]
       ELSE LET relevantParents == {i \in 1..Len(ps) : rel(ps[i])}
                relevantChange == \E i \in 1..Len(ps) : rel(ps[i]) /\ ~same(ps[i])
                irrelevantChange == \E i \in 1..Len(ps) : ~rel(ps[i]) /\ ~same(ps[i])
            IN [keep |-> ps,
                treesame |-> IF relevantParents # {} THEN ~relevantChange
                                                      ELSE ~irrelevantChange,
                visited |-> SeqRange(ps)]

RECURSIVE Walk(_, _, _)
Walk(w, bottoms, path) ==
    IF w.queue = {} THEN w
    ELSE LET c == Newest(w.queue)
             q == w.queue \ {c}
         IN IF c \in w.un
            THEN LET ps == SeqRange(w.par[c])
                     parsed1 == w.parsed \cup ps
                     grand == UNION {SeqRange(w.par[p]) : p \in ps}
                 IN Walk([w EXCEPT !.queue = q \cup (ps \ w.seen),
                                   !.seen = @ \cup ps,
                                   !.parsed = parsed1,
                                   !.un = MarkUninteresting(grand, w.un \cup ps, parsed1, w.par)],
                         bottoms, path)
            ELSE LET s == IF path THEN Simplify(c, w.par[c], w.un, bottoms)
                          ELSE [keep |-> w.par[c], treesame |-> FALSE, visited |-> {}]
                     ps == SeqRange(s.keep)
                 IN Walk([w EXCEPT !.queue = q \cup (ps \ w.seen),
                                   !.seen = @ \cup ps,
                                   !.parsed = @ \cup s.visited \cup ps,
                                   !.par = [@ EXCEPT ![c] = s.keep],
                                   !.ts = IF s.treesame THEN @ \cup {c} ELSE @,
                                   !.list = Append(@, c)],
                         bottoms, path)

\* git log [--merges | --no-merges] [--reverse] bottom..tip [-- target_file]:
\* the hashes printed, one per line.  merges is "only", "no" or "any".
GitLog(tip, bottom, path, merges, reverse) ==
    LET w0 == [queue |-> {tip, bottom},
               seen |-> {tip, bottom},
               parsed |-> {tip, bottom},
               un |-> {bottom} \cup SeqRange(parents[bottom]),
               ts |-> {},
               par |-> parents,
               list |-> <<>>]
        w == Walk(w0, {bottom}, path)
        Shown(c) == /\ c \notin w.un
                    /\ merges = "only" => Len(w.par[c]) >= 2
                    /\ merges = "no" => Len(w.par[c]) <= 1
                    /\ path => c \notin w.ts
        shown == SelectSeq(w.list, Shown)
    IN IF reverse THEN Reverse(shown) ELSE shown

\* git show --name-only --format='' c for a commit that is no merge: the
\* paths the commit changes.  Only the target file is followed.
GitShowNameOnly(c) == IF Touches(c) THEN <<TargetFile>> ELSE <<>>

----------------------------------------------------------------------------
(* The repositories and command lines a run can start from.                 *)

\* The parent lists a new commit can have on top of graph g: one parent, or
\* two with the second not already merged into the first (git merge makes
\* no commit when there is nothing to merge).
ParentChoices(g) ==
    {<<p>> : p \in 1..Len(g)}
    \cup {ps \in {<<p1, p2>> : p1 \in 1..Len(g), p2 \in 1..Len(g)} :
              ps[2] \notin ReachFrom(g, {ps[1]}, {})}

RECURSIVE Graphs(_)
\* The commit graphs of n commits grown from one root commit.
Graphs(n) ==
    IF n = 0 THEN {<<>>}
    ELSE IF n = 1 THEN {<< <<>> >>}
    ELSE UNION {{Append(g, ps) : ps \in ParentChoices(g)} : g \in Graphs(n - 1)}

\* The mainline after k topic branches of one commit were merged into it,
\* one after the other, each with a merge commit (git merge --no-ff).
Stacked(k) ==
    [c \in 1..(2 * k + 1) |->
        IF c = 1 THEN <<>> ELSE IF c % 2 = 0 THEN <<c - 1>> ELSE <<c - 2, c - 1>>]

\* The commit graphs of the model: every graph of at most MaxCommits commits,
\* and the mainlines of at most MaxTopics merged topic branches.
Repositories ==
    UNION {Graphs(n) : n \in 0..MaxCommits} \cup {Stacked(k) : k \in 1..MaxTopics}

\* What a reference resolves to: a commit, or nothing.
Resolves(ref) == ref \in Commits

Init ==
    /\ dotGit \in BOOLEAN
    /\ parents \in Repositories
    /\ ~dotGit => parents = <<>>
    \* the root commit is older than the target file
    /\ content \in {f \in [Commits -> Contents] : \A c \in Commits : parents[c] = <<>> => f[c] = 0}
    /\ \E tagged \in SUBSET {c \in Commits : IsMerge(c)} :
          subject = [c \in Commits |->
                        IF ~IsMerge(c) THEN PlainSubject
                        ELSE IF c \in tagged THEN TagSubject ELSE BranchSubject]
    /\ tool \in {"commits", "patchsets"}
    /\ start_ref \in Commits \cup {NoRef}
    /\ end_ref \in Commits \cup {NoRef}
    \* no query visits a commit that neither reference reaches
    /\ Commits = ReachFrom(parents, {start_ref, end_ref} \cap Commits, {})
    /\ pc = "start"
    /\ todo = <<>>
    /\ results = <<>>
    /\ count = -1
    /\ stdout = <<>>
    /\ status = -1
    /\ nRevParse = 0
    /\ nHistory = 0
    /\ envFault = FALSE

----------------------------------------------------------------------------
(* run_command and the parts the two scripts have in common (each script    *)
(* carries its own copy of them).                                           *)

\* str.split("\n") of the output of a query, a list of lines; the blank
\* line is 0.
Blank == 0
SplitLines(text) == IF text = <<>> THEN <<Blank>> ELSE text

\* "commits.split("\n") if commits else []"
HashList(text) == IF text # <<>> THEN SplitLines(text) ELSE <<>>

\* A failure path that flushes what was collected so far before it exits.
Exit1FlushingResults ==
    /\ pc' = "exit"
    /\ status' = 1
    /\ todo' = <<>>
    /\ results' = <<>>
    /\ stdout' = Append(stdout, results)
    /\ UNCHANGED count

\* sys.exit(1) of run_command and of the precondition checks: the process is
\* gone, with nothing on standard output.
Exit1 ==
    /\ pc' = "exit"
    /\ status' = 1
    /\ todo' = <<>>
    /\ results' = <<>>
    /\ UNCHANGED <<count, stdout>>

\* A repository check that reports the missing repository and goes on.
CheckRepositoryWithoutExit(t) ==
    /\ tool = t
    /\ pc = "start"
    /\ pc' = "verify_start"
    /\ UNCHANGED <<todo, results, count, stdout, status>>
    /\ UNCHANGED <<repoVars, argVars, nRevParse, nHistory, envFault>>

\* if not os.path.exists(".git"): ... sys.exit(1)
CheckRepository(t) ==
    /\ tool = t
    /\ pc = "start"
    /\ IF dotGit
       THEN /\ pc' = "verify_start"
            /\ UNCHANGED <<todo, results, count, stdout, status>>
       ELSE Exit1
    /\ UNCHANGED <<repoVars, argVars, nRevParse, nHistory, envFault>>

\* run_command(f"git rev-parse {ref}") of the verification of the references
VerifyRef(t, at, ref, next) ==
    /\ tool = t
    /\ pc = at
    /\ nRevParse' = nRevParse + 1
    /\ \E fault \in BOOLEAN :
          /\ envFault' = fault
          /\ IF fault \/ ~Resolves(ref)
             THEN Exit1
             ELSE /\ pc' = next
                  /\ UNCHANGED <<todo, results, count, stdout, status>>
    /\ UNCHANGED <<repoVars, argVars, nHistory>>

\* A query of the history fails at step k of the n an action issues.
QueryFails(k) ==
    /\ nHistory' = nHistory + k
    /\ envFault' = TRUE
    /\ Exit1

\* The revision git resolves "{ref}^" to; a root commit has none and the
\* query that names it fails.
HasFirstParent(ref) == parents[ref] # <<>>
FirstParent(ref) == parents[ref][1]

----------------------------------------------------------------------------
(* commits.py                                                               *)

\* git log {start_ref}^..{end_ref} --no-merges --pretty=format:'%H' -- {file_path}
CommitsBetweenRefsQuery(start, end) ==
    GitLog(end, FirstParent(start), TRUE, "no", FALSE)

\* get_commits_between_refs, called from main
GetCommitsBetweenRefs ==
    /\ tool = "commits"
    /\ pc = "enumerate"
    /\ \/ QueryFails(1)
       \/ /\ nHistory' = nHistory + 1
          /\ UNCHANGED envFault
          /\ IF HasFirstParent(start_ref)
             THEN /\ todo' = HashList(CommitsBetweenRefsQuery(start_ref, end_ref))
                  /\ pc' = "loop"
                  /\ UNCHANGED <<results, count, stdout, status>>
             ELSE Exit1
    /\ UNCHANGED <<repoVars, argVars, nRevParse>>

\* The record get_commit_details of commits.py returns.  Author, date and
\* message are texts git prints for the hash and are left out.
CommitDetails(commit_hash) ==
    [hash |-> commit_hash, modified_files |-> GitShowNameOnly(commit_hash)]

\* The number of queries get_commit_details of commits.py issues.
CommitDetailsQueries == 4

\* One turn of "for commit_hash in commits" of commits.py
AppendCommitDetails ==
    /\ tool = "commits"
    /\ pc = "loop"
    /\ todo # <<>>
    /\ IF Head(todo) = Blank
       THEN /\ todo' = Tail(todo)
            /\ UNCHANGED <<pc, results, count, stdout, status, nHistory, envFault>>
       ELSE \/ \E k \in 1..CommitDetailsQueries : QueryFails(k)
            \/ /\ nHistory' = nHistory + CommitDetailsQueries
               /\ results' = Append(results, CommitDetails(Head(todo)))
               /\ todo' = Tail(todo)
               /\ UNCHANGED <<pc, count, stdout, status, envFault>>
    /\ UNCHANGED <<repoVars, argVars, nRevParse>>

\* A count taken before the last record was appended.
CountBeforeLastAppend(list) == IF list = <<>> THEN 0 ELSE Len(list) - 1

\* len(results["commits"]), len(results["patchsets"])
CountOf(list) == Len(list)

\* results["metadata"]["commit_count"] = ...; print(json.dumps(results))
PrintCommits ==
    /\ tool = "commits"
    /\ pc = "loop"
    /\ todo = <<>>
    /\ count' = CountOf(results)
    /\ stdout' = Append(stdout,
                        [metadata |-> [target_file |-> TargetFile,
                                       start_ref |-> start_ref,
                                       end_ref |-> end_ref,
                                       commit_count |-> count'],
                         commits |-> results])
    /\ status' = 0
    /\ pc' = "exit"
    /\ UNCHANGED <<repoVars, argVars, todo, results, nRevParse, nHistory, envFault>>

----------------------------------------------------------------------------
(* patchsets.py                                                             *)

\* The enumeration without the caret: git log --merges {start_ref}..{end_ref}
MergeCommitsQueryExclusive(start, end) ==
    GitLog(end, start, FALSE, "only", FALSE)

\* git log --merges {start_ref}^..{end_ref} --format='%H'
MergeCommitsQuery(start, end) ==
    GitLog(end, FirstParent(start), FALSE, "only", FALSE)

\* get_merge_commits, called from main
GetMergeCommits ==
    /\ tool = "patchsets"
    /\ pc = "enumerate"
    /\ \/ QueryFails(1)
       \/ /\ nHistory' = nHistory + 1
          /\ UNCHANGED envFault
          /\ IF HasFirstParent(start_ref)
             THEN /\ todo' = HashList(MergeCommitsQuery(start_ref, end_ref))
                  /\ pc' = "loop"
                  /\ UNCHANGED <<results, count, stdout, status>>
             ELSE Exit1
    /\ UNCHANGED <<repoVars, argVars, nRevParse>>

\* get_merge_details.  Body, author and date are left out.
MergeDetails(merge_hash) ==
    [hash |-> merge_hash,
     subject |-> subject[merge_hash],
     parent1 |-> parents[merge_hash][1],
     parent2 |-> parents[merge_hash][2]]

\* The number of queries get_merge_details issues.
MergeDetailsQueries == 6

\* check_merge_contains_merges: git log --merges --oneline {parent1}..{parent2}
CheckMergeContainsMerges(parent1, parent2) ==
    GitLog(parent2, parent1, FALSE, "only", FALSE) # <<>>

\* A comparison with the whole subject in place of the substring test.
IsTagMergeExact(subj) == subj = <<"Merge", "tag">>

\* "Merge tag" in merge_details["subject"], on the words of the subject
IsTagMerge(subj) ==
    \E i \in 1..(Len(subj) - 1) : subj[i] = "Merge" /\ subj[i + 1] = "tag"

\* The relevance check without the path: git log --oneline {parent1}..{parent2}
CheckMergeAffectsAnyFile(parent1, parent2) ==
    GitLog(parent2, parent1, FALSE, "any", FALSE) # <<>>

\* check_merge_affects_verifier: git log --oneline {parent1}..{parent2} -- {target_file}
CheckMergeAffectsVerifier(parent1, parent2) ==
    GitLog(parent2, parent1, TRUE, "any", FALSE) # <<>>

\* The listing without --reverse.
GetCommitsInMergeNewestFirst(parent1, parent2) ==
    HashList(GitLog(parent2, parent1, FALSE, "no", FALSE))

\* get_commits_in_merge: git log --reverse --no-merges --format='%H' {parent1}..{parent2}
GetCommitsInMerge(parent1, parent2) ==
    HashList(GitLog(parent2, parent1, FALSE, "no", TRUE))

\* The record get_commit_details of patchsets.py returns.
PatchCommitDetails(commit_hash) ==
    [hash |-> commit_hash,
     subject |-> subject[commit_hash],
     modified_files |-> GitShowNameOnly(commit_hash)]

\* The number of queries get_commit_details of patchsets.py issues.
PatchCommitDetailsQueries == 5

\* The inner loop "for commit_hash in commit_hashes": blank lines skipped.
CommitRecords(commit_hashes) ==
    LET NotBlank(h) == h # Blank
        kept == SelectSeq(commit_hashes, NotBlank)
    IN [i \in 1..Len(kept) |-> PatchCommitDetails(kept[i])]

\* The patchset entry main builds for an accepted merge.
Patchset(merge_details, commits) ==
    [merge_hash |-> merge_details.hash,
     merge_subject |-> merge_details.subject,
     commits |-> commits]

\* What one turn of "for merge_hash in merge_commits" does with a merge when
\* every query succeeds: the queries it issues and the patchset it appends,
\* if any.
MergeTurn(merge_hash) ==
    LET d == MergeDetails(merge_hash)
    IN IF CheckMergeContainsMerges(d.parent1, d.parent2)
       THEN [queries |-> MergeDetailsQueries + 1, append |-> <<>>]
       ELSE IF IsTagMerge(d.subject)
       THEN [queries |-> MergeDetailsQueries + 1, append |-> <<>>]
       ELSE IF CheckMergeAffectsVerifier(d.parent1, d.parent2)
       THEN LET hashes == GetCommitsInMerge(d.parent1, d.parent2)
                commits == CommitRecords(hashes)
            IN [queries |-> MergeDetailsQueries + 3
                              + PatchCommitDetailsQueries * Len(commits),
                append |-> <<Patchset(d, commits)>>]
       ELSE [queries |-> MergeDetailsQueries + 2, append |-> <<>>]

\* One turn of "for merge_hash in merge_commits" of patchsets.py
ProcessMerge ==
    /\ tool = "patchsets"
    /\ pc = "loop"
    /\ todo # <<>>
    /\ IF Head(todo) = Blank
       THEN /\ todo' = Tail(todo)
            /\ UNCHANGED <<pc, results, count, stdout, status, nHistory, envFault>>
       ELSE LET turn == MergeTurn(Head(todo))
            IN \/ \E k \in 1..turn.queries : QueryFails(k)
               \/ /\ nHistory' = nHistory + turn.queries
                  /\ results' = results \o turn.append
                  /\ todo' = Tail(todo)
                  /\ UNCHANGED <<pc, count, stdout, status, envFault>>
    /\ UNCHANGED <<repoVars, argVars, nRevParse>>

\* results["metadata"]["patchset_count"] = ...; print(json.dumps(results))
PrintPatchsets ==
    /\ tool = "patchsets"
    /\ pc = "loop"
    /\ todo = <<>>
    /\ count' = CountOf(results)
    /\ stdout' = Append(stdout,
                        [metadata |-> [target_file |-> TargetFile,
                                       start_ref |-> start_ref,
                                       end_ref |-> end_ref,
                                       patchset_count |-> count'],
                         patchsets |-> results])
    /\ status' = 0
    /\ pc' = "exit"
    /\ UNCHANGED <<repoVars, argVars, todo, results, nRevParse, nHistory, envFault>>

----------------------------------------------------------------------------

Next ==
    \/ CheckRepository("commits")
    \/ VerifyRef("commits", "verify_start", start_ref, "verify_end")
    \/ VerifyRef("commits", "verify_end", end_ref, "enumerate")
    \/ GetCommitsBetweenRefs
    \/ AppendCommitDetails
    \/ PrintCommits
    \/ CheckRepository("patchsets")
    \/ VerifyRef("patchsets", "verify_start", start_ref, "verify_end")
    \/ VerifyRef("patchsets", "verify_end", end_ref, "enumerate")
    \/ GetMergeCommits
    \/ ProcessMerge
    \/ PrintPatchsets

Spec == Init /\ [][Next]_vars

----------------------------------------------------------------------------
(* What the claims speak of, stated on the commit graph alone.              *)

\* The commits of the range a..b: reachable from b and not from a.
Range(a, b) == Reach(b) \ Reach(a)

RECURSIVE NewestFirst(_)
\* The commits of S, newest first.
NewestFirst(S) == IF S = {} THEN <<>> ELSE <<Newest(S)>> \o NewestFirst(S \ {Newest(S)})

Hashes(records) == [i \in 1..Len(records) |-> records[i].hash]

NoDuplicates(s) == \A i, j \in 1..Len(s) : s[i] = s[j] => i = j

\* A document was printed; Report is that document.
Printed == stdout # <<>>
Report == stdout[1]
CommitsReport == Printed /\ tool = "commits"
PatchsetsReport == Printed /\ tool = "patchsets"

\* The range the tools report on, and in it the non-merge commits that
\* change the target file and the merge commits.
ReportRange == Range(FirstParent(start_ref), end_ref)
QualifyingCommits == {c \in ReportRange : ~IsMerge(c) /\ Touches(c)}
MergesInRange == {c \in ReportRange : IsMerge(c)}

\* The three filters of the Patchset Reporter, for merge commit m.
IncomingRange(m) == Range(parents[m][1], parents[m][2])
Flat(m) == \A c \in IncomingRange(m) : ~IsMerge(c)
TagMerge(m) == subject[m] = TagSubject
Relevant(m) == \E c \in IncomingRange(m) : Touches(c)
Accepted(m) == Flat(m) /\ ~TagMerge(m) /\ Relevant(m)

\* Something made the run fail: no repository, a reference that does not
\* resolve, a start_ref without a parent to name, or a query that failed.
RunFailed ==
    \/ ~dotGit
    \/ ~Resolves(start_ref)
    \/ ~Resolves(end_ref)
    \/ ~HasFirstParent(start_ref)
    \/ envFault

----------------------------------------------------------------------------
(* The claims.                                                              *)

\* C1: nothing is written on standard output on a failure path.  A run in
\* which the repository check fails, a reference does not resolve or a query
\* fails ends with status 1 and empty standard output, and a document is on
\* standard output only in a run that ended with status 0 and in which
\* nothing failed; it is the only one.
C1_NoOutputOnFailure ==
    /\ status = 1 => stdout = <<>>
    /\ (pc = "exit" /\ RunFailed) => (status = 1 /\ stdout = <<>>)
    /\ Printed => (pc = "exit" /\ status = 0 /\ ~RunFailed /\ Len(stdout) = 1)

\* C1: a run that a failing query ended after metadata queries had succeeded.
C1_FailedDeepInRun ==
    /\ pc = "exit"
    /\ envFault
    /\ nHistory > 2 * MergeDetailsQueries
    /\ status = 1
    /\ stdout = <<>>

\* C2: when the commit at start_ref changes the target file, the report of
\* the Commit History Reporter holds it.  Stated for a start_ref that is no
\* merge commit and is an ancestor of end_ref (or end_ref itself), the
\* commits the range of the claim holds.
C2_StartRefCommitReported ==
    (/\ CommitsReport
     /\ start_ref \in Reach(end_ref)
     /\ ~IsMerge(start_ref)
     /\ Touches(start_ref))
    => \E i \in 1..Len(Report.commits) : Report.commits[i].hash = start_ref

\* C3: every patchset of the report comes from a merge whose incoming range
\* parent1..parent2 holds no merge commit, whose subject does not contain
\* "Merge tag", and whose incoming range holds a commit that changes the
\* target file.
C3_PatchsetsPassAllFilters ==
    PatchsetsReport =>
        \A i \in 1..Len(Report.patchsets) :
            LET m == Report.patchsets[i].merge_hash
            IN /\ m \in Commits
               /\ IsMerge(m)
               /\ Flat(m)
               /\ Report.patchsets[i].merge_subject # TagSubject
               /\ Relevant(m)

\* C3: a report with a patchset, from a range that also holds a merge whose
\* incoming range holds a merge commit and a change of the target file, and
\* whose subject is no tag merge's.
C3_NestedMergeFiltered ==
    /\ PatchsetsReport
    /\ Report.patchsets # <<>>
    /\ \E m \in MergesInRange : ~Flat(m) /\ Relevant(m) /\ ~TagMerge(m)

\* C4: in every report printed, the count of the metadata is the length of
\* the list the report holds.
C4_CountMatchesLength ==
    /\ CommitsReport => Report.metadata.commit_count = Len(Report.commits)
    /\ PatchsetsReport => Report.metadata.patchset_count = Len(Report.patchsets)

\* C4: a printed report that holds two records.
C4_ReportWithTwoRecords ==
    /\ CommitsReport
    /\ Len(Report.commits) = 2
    /\ Report.metadata.commit_count = 2

\* C5: with references that resolve and no commit to report, the Commit
\* History Reporter ends with status 0 and prints a report with commit_count
\* 0 and no commits.  Stated for the runs in which no query fails for a
\* reason outside the repository; the range of a start_ref that is a root
\* commit is all of the history of end_ref.
C5_EmptyRangeIsNoError ==
    (/\ pc = "exit"
     /\ tool = "commits"
     /\ dotGit
     /\ Resolves(start_ref)
     /\ Resolves(end_ref)
     /\ ~envFault
     /\ {c \in (IF HasFirstParent(start_ref) THEN ReportRange ELSE Reach(end_ref)) :
            ~IsMerge(c) /\ Touches(c)} = {})
    => (/\ status = 0
        /\ Printed
        /\ Report.metadata.commit_count = 0
        /\ Report.commits = <<>>)

\* C6: the commits of every patchset are the non-merge commits reachable
\* from parent2 and not from parent1, each once, every commit after all of
\* its ancestors.
C6_PatchsetCommitsOldestFirst ==
    PatchsetsReport =>
        \A i \in 1..Len(Report.patchsets) :
            LET m == Report.patchsets[i].merge_hash
                hs == Hashes(Report.patchsets[i].commits)
            IN /\ SeqRange(hs) = {c \in IncomingRange(m) : ~IsMerge(c)}
               /\ NoDuplicates(hs)
               /\ \A j, k \in 1..Len(hs) :
                      (j # k /\ hs[j] \in Reach(hs[k])) => j < k

\* C6: a patchset of two commits, the second a child of the first.
C6_PatchsetOfTwoCommits ==
    /\ PatchsetsReport
    /\ \E i \in 1..Len(Report.patchsets) :
          LET hs == Hashes(Report.patchsets[i].commits)
          IN Len(hs) = 2 /\ hs[1] \in Reach(hs[2])

\* C7: the patchsets of the report are the merge commits of the range
\* start_ref^..end_ref that pass the three filters, each once, newest first.
C7_PatchsetsAreAcceptedMergesInOrder ==
    PatchsetsReport =>
        [i \in 1..Len(Report.patchsets) |-> Report.patchsets[i].merge_hash]
            = NewestFirst({m \in MergesInRange : Accepted(m)})

\* C7: a report of two patchsets.
C7_ReportOfTwoPatchsets ==
    /\ PatchsetsReport
    /\ Len(Report.patchsets) = 2
    /\ Report.patchsets[1].merge_hash > Report.patchsets[2].merge_hash

\* C8: no git command is issued where there is no repository, and that run
\* ends with status 1; no query of the history is issued before both
\* references were resolved, start_ref first, nor in a run with a reference
\* that does not resolve.
C8_PreconditionsBeforeQueries ==
    /\ ~dotGit => (nRevParse = 0 /\ nHistory = 0 /\ (pc = "exit" => status = 1))
    /\ nHistory > 0 => (nRevParse = 2 /\ Resolves(start_ref) /\ Resolves(end_ref))
    /\ nRevParse = 2 => Resolves(start_ref)
    /\ pc = "enumerate" => (nRevParse = 2 /\ nHistory = 0)

\* C8: a run outside a repository has ended.
C8_NoRepositoryExit ==
    /\ ~dotGit
    /\ pc = "exit"
    /\ status = 1
    /\ nRevParse = 0
    /\ nHistory = 0

\* C9: the commits of the report of the Commit History Reporter are the
\* non-merge commits of the range start_ref^..end_ref that change the target
\* file, each once, newest first.
C9_CommitsAreQualifyingCommits ==
    CommitsReport => Hashes(Report.commits) = NewestFirst(QualifyingCommits)

====
